---- MODULE Spec2Model ----
(***************************************************************************)
(* A model of app.py: the SWE dashboard.  The module-level script loads    *)
(* SWE.csv, derives the snow-year calendar columns with the fiscalyear     *)
(* package (fiscal calendar starting in October), builds the month tick    *)
(* table, and then serves the selection callback dd_values.                *)
(*                                                                         *)
(* Strings of the CSV are sequences of one-character strings, so that the  *)
(* split, the slices and the integer conversions are computed.             *)
(***************************************************************************)
EXTENDS Integers, Sequences, FiniteSets, TLC

VARIABLES
    raw,        \* the rows of SWE.csv as read by pd.read_csv
    phase,      \* "start" | "serving" | "failed": the module-level script
    plot_data,  \* the global dataframe plot_data (a sequence of rows)
    months,     \* the global dataframe months (the tick table)
    pc,         \* per user: "idle" | "chart" | "figure" | "done"
    args,       \* per user: the (sensor, years) the callback was called with
    plot_df,    \* per user: the local plot_df of make_swe_chart
    result,     \* per user: the children returned by dd_values
    date,       \* calendar walk: the (Year, Month, Day) being mapped
    obs,        \* calendar walk: the fiscal fields of date, once mapped
    prev        \* calendar walk: the fiscal fields of the day before

vars == <<raw, phase, plot_data, months, pc, args, plot_df, result, date, obs, prev>>

pipeVars == <<raw, phase, plot_data, pc, args, plot_df, result>>
calVars == <<date, obs, prev>>

----------------------------------------------------------------------------
(* Bounds *)

FirstYear == 2015
NumYears == 3
MaxRows == 2

CalYears == FirstYear .. (FirstYear + NumYears - 1)

----------------------------------------------------------------------------
(* The Gregorian calendar, as datetime.date computes it *)

IsLeap(y) == (y % 4 = 0 /\ y % 100 # 0) \/ y % 400 = 0

DaysInMonth(y, m) ==
    IF m = 2 THEN (IF IsLeap(y) THEN 29 ELSE 28)
    ELSE IF m \in {4, 6, 9, 11} THEN 30 ELSE 31

RECURSIVE DaysBeforeMonth(_, _)
DaysBeforeMonth(y, m) ==
    IF m <= 1 THEN 0 ELSE DaysBeforeMonth(y, m - 1) + DaysInMonth(y, m - 1)

DaysBeforeYear(y) ==
    LET p == y - 1 IN p * 365 + (p \div 4) - (p \div 100) + (p \div 400)

\* datetime.date(y, m, d) raises ValueError unless this holds
ValidDate(y, m, d) ==
    /\ y \in 1 .. 9999
    /\ m \in 1 .. 12
    /\ d \in 1 .. DaysInMonth(y, m)

\* datetime.date.toordinal
ToOrdinal(y, m, d) == DaysBeforeYear(y) + DaysBeforeMonth(y, m) + d

----------------------------------------------------------------------------
(* fiscalyear, after fy.setup_fiscal_calendar(start_month=10); the start   *)
(* year stays 'previous' and the start day 1                               *)

StartMonth == 10

\* FiscalYear(fy).start
FiscalYearStart(fy) == ToOrdinal(fy - 1, StartMonth, 1)

\* item in FiscalYear(fy): start <= item <= end, end being the last moment
\* before FiscalYear(fy + 1).start
InFiscalYear(o, fy) == FiscalYearStart(fy) <= o /\ o < FiscalYearStart(fy + 1)

\* FiscalDate(y, m, d).fiscal_year: at most one year away from the calendar year
fiscal_year(y, m, d) ==
    LET o == ToOrdinal(y, m, d) IN
    IF InFiscalYear(o, y) THEN y
    ELSE IF InFiscalYear(o, y + 1) THEN y + 1
    ELSE y - 1

\* FiscalMonth(fy, fm).start
FiscalMonthStart(fy, fm) ==
    LET r == (StartMonth + fm - 1) % 12
        cm == IF r = 0 THEN 12 ELSE r
        cy == IF cm >= StartMonth THEN fy - 1 ELSE fy
    IN ToOrdinal(cy, cm, 1)

\* FiscalMonth(fy, fm).end is the last moment before the next fiscal month starts
FiscalMonthNextStart(fy, fm) ==
    IF fm = 12 THEN FiscalMonthStart(fy + 1, 1) ELSE FiscalMonthStart(fy, fm + 1)

InFiscalMonth(o, fy, fm) ==
    FiscalMonthStart(fy, fm) <= o /\ o < FiscalMonthNextStart(fy, fm)

\* FiscalDate(y, m, d).fiscal_month: the first fiscal month of the date's
\* fiscal year that contains it (12 when the loop runs out)
RECURSIVE FiscalMonthSearch(_, _, _)
FiscalMonthSearch(o, fy, fm) ==
    IF fm >= 12 \/ InFiscalMonth(o, fy, fm) THEN fm
    ELSE FiscalMonthSearch(o, fy, fm + 1)

fiscal_month(y, m, d) ==
    FiscalMonthSearch(ToOrdinal(y, m, d), fiscal_year(y, m, d), 1)

\* FiscalDate(y, m, d).fiscal_day: days since the start of the fiscal year, plus 1
fiscal_day(y, m, d) ==
    ToOrdinal(y, m, d) - FiscalYearStart(fiscal_year(y, m, d)) + 1

\* columns that keep the calendar year and month
SnowFieldsCalendar(y, m, d) ==
    [SnowYear |-> y, SnowMonth |-> m, SnowDay |-> fiscal_day(y, m, d)]

\* a SnowDay that is the day of the calendar year
SnowFieldsYearDay(y, m, d) ==
    [SnowYear |-> fiscal_year(y, m, d),
     SnowMonth |-> fiscal_month(y, m, d),
     SnowDay |-> DaysBeforeMonth(y, m) + d]

\* the three columns added at lines 61-63
SnowFields(y, m, d) ==
    [SnowYear |-> fiscal_year(y, m, d),
     SnowMonth |-> fiscal_month(y, m, d),
     SnowDay |-> fiscal_day(y, m, d)]

----------------------------------------------------------------------------
(* The month tick table *)

months_label == <<"OCT", "NOV", "DEC", "JAN", "FEB", "MAR",
                  "APR", "MAY", "JUN", "JUL", "AUG", "SEP">>
months_int == <<10, 11, 12, 1, 2, 3, 4, 5, 6, 7, 8, 9>>

RefYear == 2021

\* months_day: the loop of lines 87-90 for the reference year ry
months_day(ry) ==
    [i \in 1 .. Len(months_int) |-> fiscal_day(ry, months_int[i], 1)]

\* months_dict and the months dataframe with Fiscal_day_15, lines 93-99
MonthsFrame(days) ==
    [i \in 1 .. Len(months_int) |->
        [Label |-> months_label[i],
         Month |-> months_int[i],
         Fiscal_day |-> days[i],
         Fiscal_day_15 |-> days[i] + 14]]

\* a table taken from a reference year whose snow year holds Feb 29
MonthsTableLeapRef == MonthsFrame(months_day(RefYear - 1))

\* a table of days of the calendar year
MonthsTableCalendar ==
    MonthsFrame([i \in 1 .. Len(months_int) |->
                    DaysBeforeMonth(RefYear, months_int[i]) + 1])

\* the tick table of lines 85-99
MonthsTable == MonthsFrame(months_day(RefYear))

\* the row of the tick table for calendar month m
TickOf(table, m) == CHOOSE i \in 1 .. Len(table) : table[i].Month = m

----------------------------------------------------------------------------
(* The calendar walk: the mapping of lines 61-63 applied to one date after *)
(* the other, and the tick table of lines 85-99                            *)

NoUsers == [u \in {} |-> 0]

CalDates ==
    {<<y, m, d>> \in CalYears \X (1 .. 12) \X (1 .. 31) : ValidDate(y, m, d)}

\* the day after (y, m, d)
SuccDate(y, m, d) ==
    IF d < DaysInMonth(y, m) THEN <<y, m, d + 1>>
    ELSE IF m < 12 THEN <<y, m + 1, 1>>
    ELSE <<y + 1, 1, 1>>

CalInit ==
    /\ date \in CalDates
    /\ obs = <<>>
    /\ prev = <<>>
    /\ months = <<>>
    /\ raw = <<>>
    /\ phase = "calendar"
    /\ plot_data = <<>>
    /\ pc = NoUsers
    /\ args = NoUsers
    /\ plot_df = NoUsers
    /\ result = NoUsers

\* snow.apply(lambda x: fy.FiscalDate(...)) on the row of this date
CalMap ==
    /\ obs = <<>>
    /\ obs' = <<SnowFields(date[1], date[2], date[3])>>
    /\ UNCHANGED <<date, prev, months, pipeVars>>

\* the next row holds the next day
CalNext ==
    /\ obs # <<>>
    /\ SuccDate(date[1], date[2], date[3]) \in CalDates
    /\ date' = SuccDate(date[1], date[2], date[3])
    /\ prev' = obs
    /\ obs' = <<>>
    /\ UNCHANGED <<months, pipeVars>>

\* the tick table is built
CalTicks ==
    /\ months = <<>>
    /\ months' = MonthsTable
    /\ UNCHANGED <<calVars, pipeVars>>

CalNextStep == CalMap \/ CalNext \/ CalTicks

SpecCal == CalInit /\ [][CalNextStep]_vars

----------------------------------------------------------------------------
(* Text of the CSV cells *)

Digits == <<"0", "1", "2", "3", "4", "5", "6", "7", "8", "9">>

IsDigit(c) == \E i \in 1 .. Len(Digits) : Digits[i] = c

DigitVal(c) == (CHOOSE i \in 1 .. Len(Digits) : Digits[i] = c) - 1

IsSpace(c) == c = " "

\* the first whitespace-separated token of s at or after position i
RECURSIVE TokenFrom(_, _)
TokenFrom(s, i) ==
    IF i > Len(s) \/ IsSpace(s[i]) THEN <<>>
    ELSE <<s[i]>> \o TokenFrom(s, i + 1)

\* str.split() without a separator: the tokens between runs of whitespace
RECURSIVE SplitFrom(_, _)
SplitFrom(s, i) ==
    IF i > Len(s) THEN <<>>
    ELSE IF IsSpace(s[i]) THEN SplitFrom(s, i + 1)
    ELSE LET t == TokenFrom(s, i) IN <<t>> \o SplitFrom(s, i + Len(t))

str_split(s) == SplitFrom(s, 1)

\* str.slice(start, stop) with Python's 0-based, end-exclusive bounds
str_slice(s, start, stop) ==
    IF start >= Len(s) THEN <<>>
    ELSE SubSeq(s, start + 1, IF stop < Len(s) THEN stop ELSE Len(s))

RECURSIVE DecimalValue(_)
DecimalValue(s) ==
    IF s = <<>> THEN 0
    ELSE 10 * DecimalValue(SubSeq(s, 1, Len(s) - 1)) + DigitVal(s[Len(s)])

\* whether the text parses as a whole number
IsNumeric(s) == s # <<>> /\ \A i \in 1 .. Len(s) : IsDigit(s[i])

\* a cell of the VALUE column after pd.to_numeric(errors='coerce')
NaN == [isna |-> TRUE, num |-> 0]
Num(n) == [isna |-> FALSE, num |-> n]

to_numeric(cell) == IF IsNumeric(cell) THEN Num(DecimalValue(cell)) ELSE NaN

----------------------------------------------------------------------------
(* The file: rows of (STATION_ID, DATE TIME, VALUE) *)

Midnight == <<" ", "0", "0", "0", "0">>

RawRow(station, datetime, value) ==
    [STATION_ID |-> station, DATE_TIME |-> datetime, VALUE |-> value]

SampleRows ==
    { RawRow("TUM", <<"2","0","1","5","1","0","0","1">> \o Midnight, <<"1">>),
      RawRow("TUM", <<"2","0","1","6","0","3","0","1">> \o Midnight, <<"2">>),
      RawRow("TUM", <<"2","0","1","7","0","3","0","1">> \o Midnight, <<"-","-","-">>),
      RawRow("BSH", <<"2","0","1","6","0","3","0","1">> \o Midnight, <<"3">>),
      RawRow("TUM", <<"2","0","1","6","0","3","1">> \o Midnight, <<"4">>),
      RawRow("TUM", <<"2","0","1","6","0","3","0","1","1">> \o Midnight, <<"5">>),
      RawRow("TUM", <<"2","0","1","6","0","3">> \o Midnight, <<"6">>),
      RawRow("TUM", <<>>, <<"7">>) }

Files == UNION {[1 .. n -> SampleRows] : n \in 0 .. MaxRows}

\* the order of the station identifiers as strings
StationsSorted == <<"BSH", "TUM">>
StationRank(s) == CHOOSE i \in 1 .. Len(StationsSorted) : StationsSorted[i] = s

----------------------------------------------------------------------------
(* Loading and cleaning, lines 46-67 *)

Max(S) == CHOOSE x \in S : \A y \in S : y <= x

\* snow[['Date','Time']] = snow['DATE TIME'].str.split(expand=True): the
\* expanded frame has as many columns as the longest split, and the
\* assignment raises unless there are two
SplitColumns(rows) ==
    IF rows = <<>> THEN 0
    ELSE Max({Len(str_split(rows[i].DATE_TIME)) : i \in 1 .. Len(rows)})

\* the Date column: a missing token is a missing value, written <<>>
DateOf(r) ==
    LET t == str_split(r.DATE_TIME) IN IF Len(t) >= 1 THEN t[1] ELSE <<>>

\* a row after lines 52-53; idx is the index of the dataframe
Cleaned(rows) ==
    [i \in 1 .. Len(rows) |->
        [idx |-> i,
         STATION_ID |-> rows[i].STATION_ID,
         VALUE |-> to_numeric(rows[i].VALUE),
         Date |-> DateOf(rows[i])]]

\* DataFrame.dropna(subset=['Date','VALUE']): a new frame without those rows
dropna(rows) == SelectSeq(rows, LAMBDA r : r.Date # <<>> /\ ~r.VALUE.isna)

YearText(r) == str_slice(r.Date, 0, 4)
MonthText(r) == str_slice(r.Date, 4, 6)
DayText(r) == str_slice(r.Date, 6, 8)

\* .astype('int32') of the three slices raises on a missing Date and on text
\* that is no integer
SlicesConvert(r) ==
    /\ r.Date # <<>>
    /\ IsNumeric(YearText(r))
    /\ IsNumeric(MonthText(r))
    /\ IsNumeric(DayText(r))

\* the row with the columns of lines 55-63
WithSnowFields(r) ==
    LET y == DecimalValue(YearText(r))
        m == DecimalValue(MonthText(r))
        d == DecimalValue(DayText(r))
        f == SnowFields(y, m, d)
    IN [idx |-> r.idx, STATION_ID |-> r.STATION_ID, VALUE |-> r.VALUE,
        Date |-> r.Date,
        SnowYear |-> f.SnowYear,
        SnowMonth |-> f.SnowMonth,
        SnowDay |-> f.SnowDay]

\* fy.FiscalDate(Year, Month, Day) raises unless the three make a date
RowHasDate(r) ==
    ValidDate(DecimalValue(YearText(r)), DecimalValue(MonthText(r)),
              DecimalValue(DayText(r)))

\* the sort key ['STATION_ID', 'SnowYear', 'SnowMonth', 'SnowDay']
KeyLessYearOnly(a, b) ==
    \/ StationRank(a.STATION_ID) < StationRank(b.STATION_ID)
    \/ /\ a.STATION_ID = b.STATION_ID
       /\ a.SnowYear < b.SnowYear

KeyLess(a, b) ==
    \/ StationRank(a.STATION_ID) < StationRank(b.STATION_ID)
    \/ /\ a.STATION_ID = b.STATION_ID
       /\ \/ a.SnowYear < b.SnowYear
          \/ /\ a.SnowYear = b.SnowYear
             /\ \/ a.SnowMonth < b.SnowMonth
                \/ a.SnowMonth = b.SnowMonth /\ a.SnowDay < b.SnowDay

\* r put into a sorted frame after every row whose key is not greater
RECURSIVE InsertSorted(_, _)
InsertSorted(sorted, r) ==
    IF sorted = <<>> THEN <<r>>
    ELSE IF KeyLess(r, Head(sorted)) THEN <<r>> \o sorted
    ELSE <<Head(sorted)>> \o InsertSorted(Tail(sorted), r)

\* DataFrame.sort_values(by=[four columns]): a sort on several columns keeps
\* rows of equal keys in their order
RECURSIVE sort_values(_)
sort_values(rows) ==
    IF rows = <<>> THEN <<>>
    ELSE InsertSorted(sort_values(SubSeq(rows, 1, Len(rows) - 1)), rows[Len(rows)])

\* lines 46-67: what the script makes of the file, or the exception
LoadFrame(rows) ==
    LET snow == Cleaned(rows)
        discarded == dropna(snow)
    IN IF SplitColumns(rows) # 2 THEN [ok |-> FALSE, rows |-> <<>>]
       ELSE IF \E i \in 1 .. Len(snow) : ~SlicesConvert(snow[i])
            THEN [ok |-> FALSE, rows |-> <<>>]
       ELSE IF \E i \in 1 .. Len(snow) : ~RowHasDate(snow[i])
            THEN [ok |-> FALSE, rows |-> <<>>]
       ELSE [ok |-> TRUE,
             rows |-> sort_values([i \in 1 .. Len(snow) |-> WithSnowFields(snow[i])])]

----------------------------------------------------------------------------
(* The chart, lines 106-114 *)

Users == {"u1", "u2"}

NoSensor == "None"
SensorChoices == {NoSensor, "TUM", "BSH"}

NoYears == [none |-> TRUE, vals |-> {}]
YearsList(Y) == [none |-> FALSE, vals |-> Y]
YearsChoices == {NoYears, YearsList({}), YearsList({2016}), YearsList({2016, 2017})}

NoArgs == [sensor |-> NoSensor, years |-> NoYears]

\* plot_data[(STATION_ID == sensor) & SnowYear.isin(years)]
FilterAnyStation(frame, sensor, years) ==
    SelectSeq(frame, LAMBDA r : r.SnowYear \in years)

FilterRows(frame, sensor, years) ==
    SelectSeq(frame, LAMBDA r : r.STATION_ID = sensor /\ r.SnowYear \in years)

\* the values of SnowYear in the order they first appear
RECURSIVE ColorsOf(_)
ColorsOf(frame) ==
    IF frame = <<>> THEN <<>>
    ELSE LET rest == ColorsOf(SubSeq(frame, 1, Len(frame) - 1))
             y == frame[Len(frame)].SnowYear
         IN IF \E i \in 1 .. Len(rest) : rest[i] = y THEN rest ELSE rest \o <<y>>

\* the points (x = SnowDay, y = VALUE) of the rows of one snow year, in order
PointsOf(frame, y) ==
    LET rs == SelectSeq(frame, LAMBDA r : r.SnowYear = y)
    IN [i \in 1 .. Len(rs) |-> [x |-> rs[i].SnowDay, y |-> rs[i].VALUE]]

\* px.line(plot_df, x="SnowDay", y="VALUE", color='SnowYear'): one trace a
\* snow year
px_line(frame) ==
    LET cs == ColorsOf(frame)
    IN [i \in 1 .. Len(cs) |-> [name |-> cs[i], points |-> PointsOf(frame, cs[i])]]

\* fig.update_layout(xaxis=dict(tickvals=..., ticktext=months['Label'] + ' 1'))
Figure(frame, table) ==
    [data |-> px_line(frame),
     tickvals |-> [i \in 1 .. Len(table) |-> table[i].Fiscal_day],
     ticktext |-> [i \in 1 .. Len(table) |-> <<table[i].Label, " 1">>]]

Pending == [kind |-> "pending", figure |-> <<>>]
Prompt == [kind |-> "H3", figure |-> <<>>]
Graph(fig) == [kind |-> "Graph", figure |-> <<fig>>]

----------------------------------------------------------------------------
(* The program *)

Init ==
    /\ raw \in Files
    /\ phase = "start"
    /\ plot_data = <<>>
    /\ months = <<>>
    /\ pc = [u \in Users |-> "idle"]
    /\ args = [u \in Users |-> NoArgs]
    /\ plot_df = [u \in Users |-> <<>>]
    /\ result = [u \in Users |-> Pending]
    /\ date = <<>>
    /\ obs = <<>>
    /\ prev = <<>>

\* the module-level script up to the layout: it serves, or it has raised
Load ==
    /\ phase = "start"
    /\ LET f == LoadFrame(raw) IN
         IF f.ok
         THEN /\ plot_data' = f.rows
              /\ months' = MonthsTable
              /\ phase' = "serving"
         ELSE /\ phase' = "failed"
              /\ UNCHANGED <<plot_data, months>>
    /\ UNCHANGED <<raw, pc, args, plot_df, result, calVars>>

\* dd_values is called: lines 180-183, up to the call of make_swe_chart
dd_values(u, sensor, years) ==
    /\ phase = "serving"
    /\ pc[u] \in {"idle", "done"}
    /\ args' = [args EXCEPT ![u] = [sensor |-> sensor, years |-> years]]
    /\ plot_df' = [plot_df EXCEPT ![u] = <<>>]
    /\ IF sensor = NoSensor \/ years.none
       THEN /\ result' = [result EXCEPT ![u] = Prompt]
            /\ pc' = [pc EXCEPT ![u] = "done"]
       ELSE /\ result' = [result EXCEPT ![u] = Pending]
            /\ pc' = [pc EXCEPT ![u] = "chart"]
    /\ UNCHANGED <<raw, phase, plot_data, months, calVars>>

\* a filter whose result is stored back in the global
make_swe_chart_global(u) ==
    /\ pc[u] = "chart"
    /\ plot_data' = FilterRows(plot_data, args[u].sensor, args[u].years.vals)
    /\ plot_df' = [plot_df EXCEPT ![u] = plot_data']
    /\ pc' = [pc EXCEPT ![u] = "figure"]
    /\ UNCHANGED <<raw, phase, months, args, result, calVars>>

\* make_swe_chart, line 107: the filter reads plot_data
make_swe_chart(u) ==
    /\ pc[u] = "chart"
    /\ plot_df' = [plot_df EXCEPT ![u] =
                     FilterRows(plot_data, args[u].sensor, args[u].years.vals)]
    /\ pc' = [pc EXCEPT ![u] = "figure"]
    /\ UNCHANGED <<raw, phase, plot_data, months, args, result, calVars>>

\* make_swe_chart, lines 108-114, and dd_values, lines 185-186: the figure
\* reads months and is returned in a Graph
make_figure(u) ==
    /\ pc[u] = "figure"
    /\ result' = [result EXCEPT ![u] = Graph(Figure(plot_df[u], months))]
    /\ pc' = [pc EXCEPT ![u] = "done"]
    /\ UNCHANGED <<raw, phase, plot_data, months, args, plot_df, calVars>>

Next ==
    \/ Load
    \/ \E u \in Users, s \in SensorChoices, y \in YearsChoices : dd_values(u, s, y)
    \/ \E u \in Users : make_swe_chart(u)
    \/ \E u \in Users : make_figure(u)

Spec == Init /\ [][Next]_vars

----------------------------------------------------------------------------
(* Claims about the calendar mapping, checked under SpecCal *)

Mapped == obs # <<>>

FirstOfMonth == Mapped /\ months # <<>> /\ date[3] = 1

\* C6 as stated: in every snow year the tick of each month is the snow day
\* of the 1st of that month.
C6_TicksMatchEveryYear ==
    FirstOfMonth =>
        months[TickOf(months, date[2])].Fiscal_day = obs[1].SnowDay

\* C6 amended: the tick of each month is the snow day of the 1st of that
\* month in every snow year without Feb 29 and, in a snow year with Feb 29,
\* for October to February; from March to September of such a year the tick
\* is one less than the snow day of the 1st.
C6_TicksMatchNonLeap ==
    FirstOfMonth =>
        months[TickOf(months, date[2])].Fiscal_day =
            obs[1].SnowDay - (IF IsLeap(date[1]) /\ date[2] \in 3 .. 9 THEN 1 ELSE 0)

\* the 1st of March of a snow year without Feb 29, on its tick
C6_Witness ==
    /\ FirstOfMonth
    /\ date = <<2017, 3, 1>>
    /\ obs[1].SnowDay = 152
    /\ months[TickOf(months, 3)].Label = "MAR"
    /\ months[TickOf(months, 3)].Fiscal_day = 152

----------------------------------------------------------------------------
(* Claims about the loaded program, checked under Spec *)

Serving == phase = "serving"

Charted(u) == pc[u] = "done" /\ result[u].kind = "Graph"

\* the rows of plot_data that a selection asks for
Matching(sensor, years) ==
    {i \in 1 .. Len(plot_data) :
        plot_data[i].STATION_ID = sensor /\ plot_data[i].SnowYear \in years}

RECURSIVE PointCount(_)
PointCount(traces) ==
    IF traces = <<>> THEN 0
    ELSE Len(Head(traces).points) + PointCount(Tail(traces))

\* C3: the plotted rows are exactly the rows of plot_data of the sensor whose
\* snow year is among the requested years, each once, and there is one
\* series a plotted snow year, at most as many as requested years.
C3_FilterExact ==
    \A u \in Users : Charted(u) =>
        LET M == Matching(args[u].sensor, args[u].years.vals)
            df == plot_df[u]
            traces == result[u].figure[1].data
        IN /\ \A j \in 1 .. Len(df) : \E i \in M : plot_data[i] = df[j]
           /\ \A i \in M : \E j \in 1 .. Len(df) : df[j] = plot_data[i]
           /\ Len(df) = Cardinality(M)
           /\ PointCount(traces) = Len(df)
           /\ Len(traces) <= Cardinality(args[u].years.vals)
           /\ \A t \in 1 .. Len(traces) :
                /\ traces[t].name \in args[u].years.vals
                /\ traces[t].points # <<>>
                /\ \A t2 \in 1 .. Len(traces) :
                     traces[t].name = traces[t2].name => t = t2

\* a chart of TUM in 2016 and 2017 over a frame that also holds a BSH row:
\* one row plotted, one left out
C3_Witness ==
    \E u \in Users :
        /\ Charted(u)
        /\ args[u] = [sensor |-> "TUM", years |-> YearsList({2016, 2017})]
        /\ Len(plot_data) = 2
        /\ \E i \in 1 .. 2 : plot_data[i].STATION_ID = "BSH"
        /\ Len(plot_df[u]) = 1
        /\ Len(result[u].figure[1].data) = 1

Incomplete(a) == a.sensor = NoSensor \/ a.years.none \/ a.years.vals = {}

\* C4: a callback whose station is absent, or whose years are absent or
\* empty, returns the prompt and never a chart; a chart is returned only for
\* a station and a non-empty set of years.
C4_PromptUnlessSelected ==
    \A u \in Users : pc[u] = "done" =>
        IF Incomplete(args[u]) THEN result[u].kind = "H3"
        ELSE result[u].kind = "Graph"

UnparseableRows ==
    {i \in 1 .. Len(raw) :
        ~IsNumeric(raw[i].VALUE) \/ str_split(raw[i].DATE_TIME) = <<>>}

\* C5: a raw row whose value is no number (or whose date is missing) is not
\* in plot_data: plot_data has the raw rows less those, and no plotted point
\* has a missing value.
C5_UnparseableDropped ==
    Serving =>
        /\ Len(plot_data) = Len(raw) - Cardinality(UnparseableRows)
        /\ \A i \in 1 .. Len(plot_data) : ~plot_data[i].VALUE.isna
        /\ \A u \in Users : Charted(u) =>
             \A t \in 1 .. Len(result[u].figure[1].data) :
                \A k \in 1 .. Len(result[u].figure[1].data[t].points) :
                    ~result[u].figure[1].data[t].points[k].y.isna

LabelRow(table, label) == CHOOSE i \in 1 .. Len(table) : table[i].Label = label

SepIsLast(table) ==
    \A i \in 1 .. Len(table) :
        table[i].Fiscal_day <= table[LabelRow(table, "SEP")].Fiscal_day

C8_SeriesOrdered ==
    \A u \in Users : Charted(u) =>
        LET df == plot_df[u]
            traces == result[u].figure[1].data
        IN /\ \A t \in 1 .. Len(traces) :
                \A i, j \in 1 .. Len(traces[t].points) :
                    i < j => traces[t].points[i].x <= traces[t].points[j].x
           /\ \A i, j \in 1 .. Len(df) :
                (i < j /\ df[i].SnowYear = df[j].SnowYear) =>
                    /\ df[i].SnowDay <= df[j].SnowDay
                    /\ df[i].SnowDay = df[j].SnowDay => df[i].idx < df[j].idx
           /\ \A t \in 1 .. Len(traces) :
                \A k \in 1 .. Len(traces[t].points) :
                    \E i \in 1 .. Len(df) :
                        /\ df[i].SnowYear = traces[t].name
                        /\ df[i].SnowDay = traces[t].points[k].x
                        /\ df[i].VALUE = traces[t].points[k].y

\* a series of two points whose rows stood in the file the other way round
C8_Witness ==
    \E u \in Users :
        /\ Charted(u)
        /\ Len(plot_df[u]) = 2
        /\ plot_df[u][1].idx = 2 /\ plot_df[u][2].idx = 1
        /\ Len(result[u].figure[1].data) = 1
        /\ result[u].figure[1].data[1].points[1].x = 1
        /\ result[u].figure[1].data[1].points[2].x = 153

\* C9: once the script serves, no step changes plot_data or months, and a
\* callback that returns gives what any returned callback of the same
\* arguments has given.
C9_ReadOnlyAndPure ==
    [][/\ Serving => (plot_data' = plot_data /\ months' = months)
       /\ \A u, v \in Users :
            (pc'[u] = "done" /\ pc[v] = "done" /\ args'[u] = args[v]) =>
                result'[u] = result[v]]_vars

\* two users with the same complete selection, both answered by the same
\* chart of one row, the frame being what the script left
C9_Witness ==
    /\ Serving
    /\ pc["u1"] = "done" /\ pc["u2"] = "done"
    /\ args["u1"] = args["u2"]
    /\ result["u1"].kind = "Graph"
    /\ result["u1"] = result["u2"]
    /\ Len(plot_df["u1"]) = 1
    /\ Len(plot_data) = 2
    /\ plot_data = LoadFrame(raw).rows

Retained(r) == IsNumeric(r.VALUE) /\ str_split(r.DATE_TIME) # <<>>

\* C10: the script raises whenever a retained row has a date that is not
\* exactly 8 digits, so it never serves rows whose year, month and day come
\* from a shorter or a cut date.
C10_FailsUnlessEightDigits ==
    Serving =>
        \A i \in 1 .. Len(raw) :
            Retained(raw[i]) => Len(DateOf(raw[i])) = 8

====
